---- MODULE Spec2Model ----
(***************************************************************************)
(* aioftp/server.py: the per-connection command dispatcher, the session    *)
(* record it drives, the USER/PASS flow, the directory and listing         *)
(* handlers, the passive listener and the background MLSD writer.          *)
(*                                                                         *)
(* A virtual path is the sequence of its components below "/" (the root is *)
(* <<>>).  A session record (the dict `connection`) is a function whose    *)
(* DOMAIN is the set of keys present.  One step of the model is one run of *)
(* a coroutine between two suspension points.                              *)
(***************************************************************************)
EXTENDS Naturals, Sequences, FiniteSets, TLC

\* Bounds of the model.
MaxConn == 2       \* control connections a behaviour may open
MaxDepth == 2      \* components of the deepest path of the filesystem
MaxUsers == 2      \* length of the configured user list (SpecAuth)
MaxAccept == 2     \* data connections a client opens to one passive listener
MaxMlsd == 2       \* MLSD transfers started in one session
MaxPerms == 2      \* length of a user's permission list (SpecPerm)

Conns == 1..MaxConn

None == "None"
NoCmd == [verb |-> "", rest |-> "", abs |-> FALSE, parts |-> <<>>]

VARIABLES
    users,          \* Server.users
    timeout,        \* Server.timeout
    host,           \* Server.host: the address the server is started on, as text
    fs,             \* what path_io sees: real path -> "none"|"dir"|"file"|"other"
    connections,    \* the keys of Server.connections
    connection,     \* the session record of each control connection
    pc,             \* where each dispatcher is: "idle" (no client yet), "greeting",
                    \* "read", "exec", "write", "done"
    cmd,            \* the command parse_command returned, while its handler runs
    out,            \* reply lines write_response has still to write
    ctl,            \* control channel: the lines written since the last command was read
    wopen,          \* control writer not yet closed
    exit,           \* how the dispatcher left its loop
    listener,       \* the session's passive listener: "none" | "open" | "closed"
    dsock,          \* the data sockets the listener accepted, in order
    tasks,          \* the mlsd_writer tasks of the session, in spawn order, each with
                    \* the history of its transfer's events
    ok,             \* the dispatcher's local `ok`
    proved          \* history: whether the session's current user has authenticated

vars == <<users, timeout, host, fs, connections, connection, pc, cmd, out, ctl, wopen,
          exit, listener, dsock, tasks, ok, proved>>

----------------------------------------------------------------------------
\* Paths (pathlib.PurePath, lexical).

Names == {"d", "f"}

RECURSIVE SeqsUpTo(_, _)
SeqsUpTo(S, n) ==
    IF n = 0 THEN {<<>>}
    ELSE LET shorter == SeqsUpTo(S, n - 1)
         IN  shorter \cup {Append(s, x) : s \in {t \in shorter : Len(t) = n - 1}, x \in S}

Paths == SeqsUpTo(Names, MaxDepth)

\* The component pathlib keeps as it is: Path("/d/..").parts is ("/", "d", "..").
DotDot == ".."
LexPaths == SeqsUpTo(Names \cup {DotDot}, MaxDepth)

IsPrefix(p, q) == Len(p) <= Len(q) /\ SubSeq(q, 1, Len(p)) = p

Parent(p) == IF p = <<>> THEN <<>> ELSE SubSeq(p, 1, Len(p) - 1)

\* Permission.__init__: path "/", readable and writable by default.
Permission(path, readable, writable) ==
    [path |-> path, readable |-> readable, writable |-> writable]

DefaultPermission == Permission(<<>>, TRUE, TRUE)

\* Permission.is_parent: other.relative_to(self.path) does not raise.
is_parent(perm, other) == IsPrefix(perm.path, other)

\* User.__init__; `permissions or [Permission()]`.
User(login, password, home_path, permissions) ==
    [login |-> login, password |-> password, base_path |-> <<>>,
     home_path |-> home_path,
     permissions |-> IF permissions = <<>> THEN <<DefaultPermission>> ELSE permissions]

\* A get_permissions that takes the matching permission farthest from `path`.
get_permissions_shallowest(user, path) ==
    LET perms == user.permissions
        parents == {i \in 1..Len(perms) : is_parent(perms[i], path)}
        key(i) == Len(path) - Len(perms[i].path)
    IN  IF parents = {} THEN DefaultPermission
        ELSE perms[CHOOSE i \in parents :
                     \A j \in parents : key(i) > key(j) \/ (key(i) = key(j) /\ i <= j)]

\* min(parents, key=remaining components, default=Permission()): the first of the
\* matching permissions with the fewest components left to `path`.
get_permissions(user, path) ==
    LET perms == user.permissions
        parents == {i \in 1..Len(perms) : is_parent(perms[i], path)}
        key(i) == Len(path) - Len(perms[i].path)
    IN  IF parents = {} THEN DefaultPermission
        ELSE perms[CHOOSE i \in parents :
                     \A j \in parents : key(i) < key(j) \/ (key(i) = key(j) /\ i <= j)]

\* Server.get_paths: <<real_path, virtual_path>> for an argument [abs, parts].
get_paths(conn, arg) ==
    LET virtual_path == IF arg.abs THEN arg.parts
                        ELSE conn["current_directory"] \o arg.parts
    IN  <<conn["user"].base_path \o virtual_path, virtual_path>>

----------------------------------------------------------------------------
\* The path-I/O capability (pathio.AsyncPathIO), over fs.

InFs(p) == Len(p) <= MaxDepth

\* What the operating system finds at a path, walking its components from the base
\* directory: ".." steps to the parent, every component walked through must be a
\* directory, and the ancestors of the base directory are directories.  What lies
\* below those ancestors, outside the served tree, is "beyond".
RECURSIVE KindAt(_, _, _, _)
KindAt(f, cur, above, rest) ==
    IF rest = <<>> THEN (IF above THEN "dir" ELSE f[cur])
    ELSE IF ~above /\ f[cur] # "dir" THEN "none"
    ELSE IF Head(rest) = DotDot
    THEN (IF above \/ cur = <<>> THEN KindAt(f, <<>>, TRUE, Tail(rest))
          ELSE KindAt(f, Parent(cur), FALSE, Tail(rest)))
    ELSE IF above THEN "beyond"
    ELSE KindAt(f, Append(cur, Head(rest)), FALSE, Tail(rest))

Kind(f, p) == KindAt(f, <<>>, FALSE, p)

exists(f, p) == Kind(f, p) # "none"
is_dir(f, p) == Kind(f, p) = "dir"
is_file(f, p) == Kind(f, p) = "file"

Children(f, p) == {q \in DOMAIN f : Len(q) = Len(p) + 1 /\ IsPrefix(p, q) /\ f[q] # "none"}

\* mkdir(parents=True) raises OSError below something that is no directory.
mkdir_raises(f, p) == \E q \in DOMAIN f : IsPrefix(q, p) /\ q # p /\ f[q] \in {"file", "other"}
mkdir(f, p) == [q \in DOMAIN f |-> IF IsPrefix(q, p) /\ f[q] = "none" THEN "dir" ELSE f[q]]

\* rmdir raises OSError on a directory that is not empty, and on the root.
rmdir_raises(f, p) == p = <<>> \/ Children(f, p) # {}
rmdir(f, p) == [f EXCEPT ![p] = "none"]

RECURSIVE SetToSeq(_)
SetToSeq(S) == IF S = {} THEN <<>>
               ELSE LET x == CHOOSE y \in S : \A z \in S : Len(y) <= Len(z)
                    IN  <<x>> \o SetToSeq(S \ {x})

\* list raises OSError on what is no directory.
list_raises(f, p) == f[p] # "dir"
list(f, p) == SetToSeq(Children(f, p))

InitFs ==
    [p \in Paths |->
        IF p = <<>> \/ p = <<"d">> THEN "dir"
        ELSE IF p = <<"f">> THEN "file"
        ELSE IF p = <<"d", "f">> THEN "other"
        ELSE "none"]

----------------------------------------------------------------------------
\* Replies.  A text is a format string with its arguments; a line of the control
\* channel is the code (or nothing), a separator and a text.

Text(msg, arg) == [msg |-> msg, arg |-> arg, nums |-> <<>>]
T(msg) == Text(msg, <<>>)

Str(text) == [kind |-> "str", str |-> text, list |-> <<>>]
Lst(texts) == [kind |-> "list", str |-> T(""), list |-> texts]

\* common.wrap_with_container: a single string becomes a one-element sequence.
wrap_with_container(info) == IF info.kind = "str" THEN <<info.str>> ELSE info.list

Line(code, sep, text) == [code |-> code, sep |-> sep, text |-> text]

\* A write_response that separates the code by a space on every line.
write_response_spaces(code, info, listmode) ==
    [i \in 1..Len(wrap_with_container(info)) |-> Line(code, " ", wrap_with_container(info)[i])]

\* BaseServer.write_response: the lines write_line is called with, in order.
write_response(code, info, listmode) ==
    LET lines == wrap_with_container(info)
        n == Len(lines)
    IN  IF listmode
        THEN <<Line(code, "-", lines[1])>>
             \o [i \in 1..(n - 2) |-> Line("", " ", lines[i + 1])]
             \o <<Line(code, " ", lines[n])>>
        ELSE [i \in 1..(n - 1) |-> Line(code, "-", lines[i])]
             \o <<Line(code, " ", lines[n])>>

\* What a handler returns: the tuple (ok, code, info[, list]), or None.
Result(cont, code, info) == [none |-> FALSE, ok |-> cont, code |-> code, info |-> info, list |-> FALSE]
Result4(cont, code, info, listmode) == [Result(cont, code, info) EXCEPT !.list = listmode]
NoneResult == [Result(TRUE, "", Str(T(""))) EXCEPT !.none = TRUE]

\* What a handler call leaves behind: the session record, the filesystem, the value
\* returned or the exception raised, and whether it scheduled an mlsd_writer or bound
\* the passive listener (and on which port).
Returns(conn, f, res) ==
    [conn |-> conn, fs |-> f, res |-> res, exc |-> "none", spawn |-> FALSE, real_path |-> <<>>,
     listen |-> FALSE]
Raises(conn, f, e) == [Returns(conn, f, NoneResult) EXCEPT !.exc = e]

Put(conn, key, value) == (key :> value) @@ conn
Pop(conn, key) == [k \in DOMAIN conn \ {key} |-> conn[k]]

----------------------------------------------------------------------------
\* The decorators.

user_required == << <<"user", "no user (use USER firstly)">> >>
login_required == << <<"logged", "not logged in">> >>
passive_required ==
    << <<"passive_server", "no listen socket created (use PASV firstly)">>,
       <<"passive_connection", "no passive connection created (connect firstly)">> >>

\* fields_required: the first field absent from the session short-circuits with 503.
Missing(fields, conn) == {i \in 1..Len(fields) : fields[i][1] \notin DOMAIN conn}
FirstMissing(fields, conn) ==
    CHOOSE i \in Missing(fields, conn) : \A j \in Missing(fields, conn) : i <= j
BadSequence(message) == Result(TRUE, "503", Str(Text("bad sequence of commands ({})", <<message>>)))
\* A gate that looks only at the first of its fields.
fields_required_first(fields, conn, f, body) ==
    IF fields[1][1] \notin DOMAIN conn
    THEN Returns(conn, f, BadSequence(fields[1][2]))
    ELSE body

fields_required(fields, conn, f, body) ==
    IF Missing(fields, conn) # {}
    THEN Returns(conn, f, BadSequence(fields[FirstMissing(fields, conn)][2]))
    ELSE body

\* unpack_keywords reads connection[name] for each keyword-only parameter.
unpack_keywords(names, conn, f, body) ==
    IF names \subseteq DOMAIN conn THEN body ELSE Raises(conn, f, "KeyError")

\* get_paths is itself wrapped by unpack_keywords (user) and reads
\* current_directory for a relative argument.
get_paths_keys(arg) == IF arg.abs THEN {"user"} ELSE {"user", "current_directory"}

----------------------------------------------------------------------------
\* The handlers of Server, each with its decorators applied.  `rest` is the text
\* after the verb; `arg` is pathlib.Path(rest) as [abs, parts].

greeting(conn, f) == Returns(conn, f, Result(TRUE, "220", Str(T("welcome"))))

\* A scan that stops at the first anonymous user.
RECURSIVE ScanUsersStopAtAnonymous(_, _, _, _)
ScanUsersStopAtAnonymous(us, i, rest, current_user) ==
    IF i > Len(us) THEN current_user
    ELSE IF us[i].login = None \/ us[i].login = rest THEN i
    ELSE ScanUsersStopAtAnonymous(us, i + 1, rest, current_user)

\* The scan of Server.user: the index of the user selected, 0 for None.
RECURSIVE ScanUsers(_, _, _, _)
ScanUsers(us, i, rest, current_user) ==
    IF i > Len(us) THEN current_user
    ELSE IF us[i].login = None /\ current_user = 0 THEN ScanUsers(us, i + 1, rest, i)
    ELSE IF us[i].login = rest THEN i
    ELSE ScanUsers(us, i + 1, rest, current_user)

user(us, conn, f, rest) ==
    LET current_user == ScanUsers(us, 1, rest, 0)
    IN  IF current_user = 0
        THEN Returns(conn, f, Result(FALSE, "530", Str(T("no such username"))))
        ELSE IF us[current_user].login = None
        THEN Returns(Put(Put(Put(conn, "logged", TRUE),
                             "current_directory", us[current_user].home_path),
                         "user", us[current_user]),
                     f, Result(TRUE, "230", Str(T("anonymous login"))))
        ELSE Returns(Put(conn, "user", us[current_user]),
                     f, Result(TRUE, "331", Str(T("require password"))))

\* A pass_ that logs the user in without setting current_directory.
pass_nowhere(conn, f, rest) ==
    fields_required(user_required, conn, f,
      unpack_keywords({"user"}, conn, f,
        IF conn["user"].password = rest
        THEN Returns(Put(conn, "logged", TRUE), f, Result(TRUE, "230", Str(T("normal login"))))
        ELSE Returns(conn, f, Result(TRUE, "530", Str(T("wrong password"))))))

pass_(conn, f, rest) ==
    fields_required(user_required, conn, f,
      unpack_keywords({"user"}, conn, f,
        IF conn["user"].password = rest
        THEN Returns(Put(Put(Put(conn, "logged", TRUE),
                             "current_directory", conn["user"].home_path),
                         "user", conn["user"]),
                     f, Result(TRUE, "230", Str(T("normal login"))))
        ELSE Returns(conn, f, Result(TRUE, "530", Str(T("wrong password"))))))

quit(conn, f) == Returns(conn, f, Result(FALSE, "221", Str(T("bye"))))

pwd(conn, f) ==
    fields_required(login_required, conn, f,
      unpack_keywords({"current_directory"}, conn, f,
        Returns(conn, f, Result(TRUE, "257", Str(Text("\"{}\"", conn["current_directory"]))))))

\* A cwd that moves to the directory before it looks at the permissions.
cwd_eager(conn, f, arg) ==
    fields_required(login_required, conn, f,
      unpack_keywords({"user", "path_io"} \cup get_paths_keys(arg), conn, f,
        LET real_path == get_paths(conn, arg)[1]
            virtual_path == get_paths(conn, arg)[2]
            moved == Put(conn, "current_directory", virtual_path)
        IN  IF ~exists(f, real_path)
            THEN Returns(conn, f, Result(TRUE, "550", Str(T("path does not exists"))))
            ELSE IF ~is_dir(f, real_path)
            THEN Returns(conn, f, Result(TRUE, "550", Str(T("path is not a directory"))))
            ELSE IF get_permissions(conn["user"], virtual_path).readable
            THEN Returns(moved, f, Result(TRUE, "250", Str(T(""))))
            ELSE Returns(moved, f, Result(TRUE, "550", Str(T("permission denied"))))))

cwd(conn, f, arg) ==
    fields_required(login_required, conn, f,
      unpack_keywords({"user", "path_io"} \cup get_paths_keys(arg), conn, f,
        LET real_path == get_paths(conn, arg)[1]
            virtual_path == get_paths(conn, arg)[2]
        IN  IF ~exists(f, real_path)
            THEN Returns(conn, f, Result(TRUE, "550", Str(T("path does not exists"))))
            ELSE IF ~is_dir(f, real_path)
            THEN Returns(conn, f, Result(TRUE, "550", Str(T("path is not a directory"))))
            ELSE IF get_permissions(conn["user"], virtual_path).readable
            THEN Returns(Put(conn, "current_directory", virtual_path),
                         f, Result(TRUE, "250", Str(T(""))))
            ELSE Returns(conn, f, Result(TRUE, "550", Str(T("permission denied"))))))

cdup(conn, f) ==
    fields_required(login_required, conn, f,
      unpack_keywords({"current_directory"}, conn, f,
        cwd(conn, f, [abs |-> TRUE, parts |-> Parent(conn["current_directory"])])))

mkd(conn, f, arg) ==
    fields_required(login_required, conn, f,
      unpack_keywords({"user", "path_io"} \cup get_paths_keys(arg), conn, f,
        LET real_path == get_paths(conn, arg)[1]
            virtual_path == get_paths(conn, arg)[2]
        IN  IF exists(f, real_path)
            THEN Returns(conn, f, Result(TRUE, "550", Str(T("path already exists"))))
            ELSE IF get_permissions(conn["user"], virtual_path).writable
            THEN IF mkdir_raises(f, real_path)
                 THEN Raises(conn, f, "OSError")
                 ELSE Returns(conn, mkdir(f, real_path), Result(TRUE, "257", Str(T(""))))
            ELSE Returns(conn, f, Result(TRUE, "550", Str(T("permission denied"))))))

\* Every branch of rmd assigns code and info, and the function ends without a
\* return statement.
rmd(conn, f, arg) ==
    fields_required(login_required, conn, f,
      unpack_keywords({"user", "path_io"} \cup get_paths_keys(arg), conn, f,
        LET real_path == get_paths(conn, arg)[1]
            virtual_path == get_paths(conn, arg)[2]
        IN  IF ~exists(f, real_path) THEN Returns(conn, f, NoneResult)
            ELSE IF ~is_dir(f, real_path) THEN Returns(conn, f, NoneResult)
            ELSE IF get_permissions(conn["user"], virtual_path).writable
            THEN IF rmdir_raises(f, real_path)
                 THEN Returns(conn, f, NoneResult)
                 ELSE Returns(conn, rmdir(f, real_path), NoneResult)
            ELSE Returns(conn, f, NoneResult)))

\* Server.build_mlsx_string: the type of the path, "" where UnknownPathType is raised.
MlsxType(f, path) == IF is_file(f, path) THEN "file" ELSE IF is_dir(f, path) THEN "dir" ELSE ""
build_mlsx_string(f, path) ==
    Text("Type={};Size={};Modify={};Create={}; {}",
         <<MlsxType(f, path), IF path = <<>> THEN "" ELSE path[Len(path)]>>)

mlsd(conn, f, arg) ==
    fields_required(login_required, conn, f,
      fields_required(passive_required, conn, f,
        unpack_keywords({"user", "path_io"} \cup get_paths_keys(arg), conn, f,
          LET real_path == get_paths(conn, arg)[1]
              virtual_path == get_paths(conn, arg)[2]
          IN  IF get_permissions(conn["user"], virtual_path).readable
              THEN [Returns(conn, f, Result(TRUE, "150", Str(T("mlsd transer started"))))
                      EXCEPT !.spawn = TRUE, !.real_path = real_path]
              ELSE Returns(conn, f, Result(TRUE, "550", Str(T("permission denied")))))))

mlst(conn, f, arg) ==
    fields_required(login_required, conn, f,
      unpack_keywords({"user", "path_io"} \cup get_paths_keys(arg), conn, f,
        LET real_path == get_paths(conn, arg)[1]
            virtual_path == get_paths(conn, arg)[2]
        IN  IF get_permissions(conn["user"], virtual_path).readable
            THEN IF MlsxType(f, real_path) = ""
                 THEN Raises(conn, f, "UnknownPathType")
                 ELSE Returns(conn, f,
                        Result4(TRUE, "250",
                                Lst(<<T("start"), build_mlsx_string(f, real_path), T("end")>>),
                                TRUE))
            ELSE Returns(conn, f, Result4(TRUE, "550", Str(T("permission denied")), FALSE))))

\* rnfr, rnto, dele, stor, retr, abor: the body is `pass`.
reserved(conn, f) == fields_required(login_required, conn, f, Returns(conn, f, NoneResult))

type(conn, f, rest) ==
    fields_required(login_required, conn, f,
      IF rest = "I"
      THEN Returns(Put(conn, "transfer_type", rest), f, Result(TRUE, "200", Str(T(""))))
      ELSE Returns(conn, f, Result(TRUE, "502", Str(Text("type '{}' not implemented", <<rest>>)))))

\* int() of a decimal numeral and str.split, over text as a sequence of characters.
Digits == <<"0", "1", "2", "3", "4", "5", "6", "7", "8", "9">>
DigitValue(ch) == (CHOOSE d \in 1..Len(Digits) : Digits[d] = ch) - 1

RECURSIVE int(_)
int(s) == IF Len(s) = 1 THEN DigitValue(s[1])
          ELSE int(SubSeq(s, 1, Len(s) - 1)) * 10 + DigitValue(s[Len(s)])

RECURSIVE split(_, _)
split(s, sep) ==
    IF \A i \in 1..Len(s) : s[i] # sep THEN <<s>>
    ELSE LET i == CHOOSE j \in 1..Len(s) : s[j] = sep /\ \A k \in 1..(j - 1) : s[k] # sep
         IN  <<SubSeq(s, 1, i - 1)>> \o split(SubSeq(s, i + 1, Len(s)), sep)

\* A pasv that advertises the two port bytes in the other order.
PasvNumsLowFirst(sockname) ==
    [i \in 1..Len(split(sockname.host, ".")) |-> int(split(sockname.host, ".")[i])]
    \o <<sockname.port % 256, sockname.port \div 256>>

\* nums of Server.pasv: tuple(map(int, host.split("."))) + (port >> 8, port & 0xff).
PasvNums(sockname) ==
    [i \in 1..Len(split(sockname.host, ".")) |-> int(split(sockname.host, ".")[i])]
    \o <<sockname.port \div 256, sockname.port % 256>>
PasvText(sockname) == [Text("({})", <<>>) EXCEPT !.nums = PasvNums(sockname)]

\* A pasv that binds a listener on every call.
pasv_rebind(conn, f, port) ==
    fields_required(login_required, conn, f,
      LET sockname == [host |-> conn["server_host"], port |-> port]
      IN  [Returns(Put(conn, "passive_server", sockname), f,
                   Result(TRUE, "227", Lst(<<T("listen socket created"), PasvText(sockname)>>)))
             EXCEPT !.listen = TRUE])

\* Server.pasv, where start_server binds to `port` when the listener is created.
pasv(conn, f, port) ==
    fields_required(login_required, conn, f,
      IF "passive_server" \notin DOMAIN conn
      THEN LET sockname == [host |-> conn["server_host"], port |-> port]
           IN  [Returns(Put(conn, "passive_server", sockname), f,
                        Result(TRUE, "227", Lst(<<T("listen socket created"), PasvText(sockname)>>)))
                  EXCEPT !.listen = TRUE]
      ELSE Returns(conn, f,
                   Result(TRUE, "227", Lst(<<T("listen socket already exists"),
                                             PasvText(conn["passive_server"])>>))))

----------------------------------------------------------------------------
\* The commands a client sends.

Logins == {"alice", "bob", "zed"}
Passwords == {"pa", "pb", "bad"}
TypeArgs == {"I", "A"}
PathArgs == [abs : {TRUE}, parts : Paths] \cup [abs : {FALSE}, parts : SeqsUpTo(Names, 1)]
DataArgs == [abs : {TRUE}, parts : SeqsUpTo(Names, 1)]
Ports == {256, 65535}
ServerHost == <<"1", "2", "7", ".", "0", ".", "0", ".", "1">>
Hosts == {ServerHost,
          <<"0", ".", "0", ".", "0", ".", "0">>,
          <<"1", "9", "2", ".", "1", "6", "8", ".", "1", "0", ".", "2", "5", "5">>}
AllPorts == 0..65535

PathVerbs == {"cwd", "mkd", "rmd", "mlsd", "mlst"}
ReservedVerbs == {"rnfr", "rnto", "dele", "stor", "retr", "abor"}
LoginGated == {"pwd", "cwd", "cdup", "mkd", "rmd", "mlsd", "mlst", "type", "pasv"}
                 \cup ReservedVerbs

Command(verb, rest, arg) == [verb |-> verb, rest |-> rest, abs |-> arg.abs, parts |-> arg.parts]
NoArg == [abs |-> FALSE, parts |-> <<>>]
Arg(command) == [abs |-> command.abs, parts |-> command.parts]

AuthCommands ==
    {Command("user", l, NoArg) : l \in Logins}
    \cup {Command("pass_", p, NoArg) : p \in Passwords}
    \cup {Command(v, "", NoArg) : v \in {"quit", "pwd"}}

PlainCommands ==
    AuthCommands
    \cup {Command("type", t, NoArg) : t \in TypeArgs}
    \cup {Command(v, "", NoArg) : v \in {"cdup", "pasv", "greeting", "users", "noop"} \cup ReservedVerbs}

Commands == PlainCommands \cup {Command(v, "", a) : v \in PathVerbs, a \in PathArgs}

DataCommands ==
    {Command("user", l, NoArg) : l \in {"alice", "zed"}}
    \cup {Command("pass_", "pa", NoArg), Command("pasv", "", NoArg), Command("quit", "", NoArg),
          Command("mlst", "", NoArg)}
    \cup {Command("mlsd", "", a) : a \in DataArgs}

ConcCommands ==
    {Command("user", l, NoArg) : l \in {"alice", "zed"}}
    \cup {Command("pass_", "pa", NoArg), Command("quit", "", NoArg), Command("rnfr", "", NoArg)}

\* Path arguments as a client may write them, ".." included.
DotArgs ==
    [abs : {TRUE}, parts : LexPaths] \cup [abs : {FALSE}, parts : SeqsUpTo(Names \cup {DotDot}, 1)]

PermCommands ==
    {Command("user", "alice", NoArg), Command("pass_", "pa", NoArg),
     Command("cdup", "", NoArg), Command("pwd", "", NoArg)}
    \cup {Command("cwd", "", a) : a \in DotArgs}

PasvCommands == {Command("user", "zed", NoArg), Command("pasv", "", NoArg)}

\* hasattr(self, cmd): the handlers, and every other attribute of the server, of
\* which "greeting" can be called as a handler and "users" cannot be called.
Attributes == {"user", "pass_", "quit", "type", "greeting", "users"} \cup LoginGated

\* The paths a command names lie within the modelled filesystem.
InModel(conn, command) ==
    command.verb \in PathVerbs /\ "logged" \in DOMAIN conn
        /\ get_paths_keys(Arg(command)) \subseteq DOMAIN conn
    => /\ InFs(get_paths(conn, Arg(command))[1])
       /\ Kind(fs, get_paths(conn, Arg(command))[1]) # "beyond"

----------------------------------------------------------------------------
\* The dispatcher.

NewConnection(c) ==
    [k \in {"client_host", "client_port", "server_host", "server_port",
            "command_connection", "timeout", "path_io", "loop"} |->
        IF k = "server_host" THEN host
        ELSE IF k = "command_connection" THEN c
        ELSE IF k = "timeout" THEN timeout
        ELSE k]

NoTask == [pc |-> "none", real_path |-> <<>>, sock |-> 0, todo |-> <<>>, log |-> <<>>]
NewTask(real_path) == [NoTask EXCEPT !.pc = "start", !.real_path = real_path]

\* The dispatcher's write of a 150 belongs to the transfer spawned last.
Sent(line, ts) ==
    IF line.code = "150" /\ ts # <<>> THEN [ts EXCEPT ![Len(ts)].log = Append(@, "150")] ELSE ts

\* The event loop runs one coroutine at a time: between reading a command and the
\* first suspension of its handler's reply nothing else runs.
Quiet == \A c \in Conns : pc[c] \notin {"greeting", "exec"}

\* A dispatcher that pops its key after the loop instead of in a finally clause.
FinallyOnlyOnReturn(c, how) ==
    /\ pc' = [pc EXCEPT ![c] = "done"]
    /\ exit' = [exit EXCEPT ![c] = how]
    /\ wopen' = [wopen EXCEPT ![c] = FALSE]
    /\ connections' = IF how = "return" THEN connections \ {c} ELSE connections

\* The finally clause: writer.close() and self.connections.pop(key).
Finally(c, how) ==
    /\ pc' = [pc EXCEPT ![c] = "done"]
    /\ exit' = [exit EXCEPT ![c] = how]
    /\ wopen' = [wopen EXCEPT ![c] = FALSE]
    /\ connections' = connections \ {c}

\* A dispatcher that goes back to reading as soon as a reply's first line is written.
ContinueReading(c, where) ==
    /\ pc' = [pc EXCEPT ![c] = "read"]
    /\ UNCHANGED <<exit, wopen, connections>>

Continue(c, where) ==
    /\ pc' = [pc EXCEPT ![c] = where]
    /\ UNCHANGED <<exit, wopen, connections>>

\* write_line up to its drain(): the line is in the writer's buffer.
WriteFirst(c, lines) ==
    /\ ctl' = [ctl EXCEPT ![c] = <<lines[1]>>]
    /\ out' = [out EXCEPT ![c] = Tail(lines)]

\* `ok, *args = yield from handler(connection, rest)`, then `yield from write(*args)`
\* up to the first suspension, for what the handler call left behind.
Handle(c, o) ==
    /\ connection' = [connection EXCEPT ![c] = o.conn]
    /\ fs' = o.fs
    /\ LET spawned == IF o.spawn THEN Append(tasks[c], NewTask(o.real_path)) ELSE tasks[c]
       IN  tasks' = [tasks EXCEPT ![c] = IF o.exc # "none" \/ o.res.none THEN spawned
                                         ELSE Sent(write_response(o.res.code, o.res.info, o.res.list)[1],
                                                   spawned)]
    /\ listener' = IF o.listen THEN [listener EXCEPT ![c] = "open"] ELSE listener
    /\ IF o.exc # "none"
       THEN Finally(c, o.exc) /\ UNCHANGED <<ctl, out, ok>>
       ELSE IF o.res.none
       THEN Finally(c, "TypeError") /\ UNCHANGED <<ctl, out, ok>>
       ELSE LET lines == write_response(o.res.code, o.res.info, o.res.list)
            IN  /\ WriteFirst(c, lines)
                /\ ok' = [ok EXCEPT ![c] = o.res.ok]
                /\ IF Len(lines) > 1 THEN Continue(c, "write")
                   ELSE IF o.res.ok THEN Continue(c, "read")
                   ELSE Finally(c, "return")
    /\ cmd' = [cmd EXCEPT ![c] = NoCmd]
    /\ UNCHANGED <<users, timeout, host, dsock>>

Exec(c, verbs) == pc[c] = "exec" /\ cmd[c].verb \in verbs

\* asyncio.start_server calls dispatcher for a new control connection: the session
\* record is built and registered.
Accept(c) ==
    /\ pc[c] = "idle" /\ Quiet
    /\ connection' = [connection EXCEPT ![c] = NewConnection(c)]
    /\ connections' = connections \cup {c}
    /\ wopen' = [wopen EXCEPT ![c] = TRUE]
    /\ pc' = [pc EXCEPT ![c] = "greeting"]
    /\ UNCHANGED <<users, timeout, host, fs, cmd, out, ctl, exit, listener, dsock, tasks, ok,
                   proved>>

Greeting(c) ==
    /\ pc[c] = "greeting"
    /\ Handle(c, greeting(connection[c], fs))
    /\ UNCHANGED proved

\* parse_command returns the next command line.
ReadCommand(c, commands) ==
    /\ pc[c] = "read" /\ Quiet
    /\ \E command \in commands :
        /\ InModel(connection[c], command)
        /\ command.verb = "mlsd" /\ mlsd(connection[c], fs, Arg(command)).spawn
            => Len(tasks[c]) < MaxMlsd
        /\ cmd' = [cmd EXCEPT ![c] = command]
    /\ pc' = [pc EXCEPT ![c] = "exec"]
    /\ ctl' = [ctl EXCEPT ![c] = <<>>]
    /\ UNCHANGED <<users, timeout, host, fs, connections, connection, out, wopen, exit,
                   listener, dsock, tasks, ok, proved>>

Read(c) == ReadCommand(c, Commands)
ReadData(c) == ReadCommand(c, DataCommands)
ReadConc(c) == ReadCommand(c, ConcCommands)
ReadAuth(c) == ReadCommand(c, AuthCommands)
ReadPerm(c) == ReadCommand(c, PermCommands)
ReadPasv(c) == ReadCommand(c, PasvCommands)

\* readline returns b"": parse_command raises ConnectionClosedError.
ConnectionClosed(c) ==
    /\ pc[c] = "read" /\ Quiet
    /\ Finally(c, "ConnectionClosedError")
    /\ UNCHANGED <<users, timeout, host, fs, connection, cmd, out, ctl, listener, dsock, tasks,
                   ok, proved>>

\* asyncio.wait_for gives up after self.timeout.
Timeout(c) ==
    /\ pc[c] = "read" /\ Quiet
    /\ timeout # None
    /\ Finally(c, "TimeoutError")
    /\ UNCHANGED <<users, timeout, host, fs, connection, cmd, out, ctl, listener, dsock, tasks,
                   ok, proved>>

\* write_response resumes after a drain() and writes its next line.
WriteLine(c) ==
    /\ pc[c] = "write" /\ Quiet
    /\ ctl' = [ctl EXCEPT ![c] = Append(@, Head(out[c]))]
    /\ out' = [out EXCEPT ![c] = Tail(@)]
    /\ tasks' = [tasks EXCEPT ![c] = Sent(Head(out[c]), @)]
    /\ IF Len(out[c]) > 1 THEN Continue(c, "write")
       ELSE IF ok[c] THEN Continue(c, "read")
       ELSE Finally(c, "return")
    /\ UNCHANGED <<users, timeout, host, fs, connection, cmd, listener, dsock, ok, proved>>

UserCmd(c) ==
    /\ Exec(c, {"user"})
    /\ Handle(c, user(users, connection[c], fs, cmd[c].rest))
    /\ LET current_user == ScanUsers(users, 1, cmd[c].rest, 0)
       IN  proved' = IF current_user = 0 THEN proved
                     ELSE [proved EXCEPT ![c] = users[current_user].login = None]

PassCmd(c) ==
    /\ Exec(c, {"pass_"})
    /\ Handle(c, pass_(connection[c], fs, cmd[c].rest))
    /\ proved' = IF "user" \in DOMAIN connection[c] /\ connection[c]["user"].password = cmd[c].rest
                 THEN [proved EXCEPT ![c] = TRUE]
                 ELSE proved

QuitCmd(c) == Exec(c, {"quit"}) /\ Handle(c, quit(connection[c], fs)) /\ UNCHANGED proved

PwdCmd(c) == Exec(c, {"pwd"}) /\ Handle(c, pwd(connection[c], fs)) /\ UNCHANGED proved

CwdCmd(c) == Exec(c, {"cwd"}) /\ Handle(c, cwd(connection[c], fs, Arg(cmd[c]))) /\ UNCHANGED proved

CdupCmd(c) == Exec(c, {"cdup"}) /\ Handle(c, cdup(connection[c], fs)) /\ UNCHANGED proved

MkdCmd(c) == Exec(c, {"mkd"}) /\ Handle(c, mkd(connection[c], fs, Arg(cmd[c]))) /\ UNCHANGED proved

RmdCmd(c) == Exec(c, {"rmd"}) /\ Handle(c, rmd(connection[c], fs, Arg(cmd[c]))) /\ UNCHANGED proved

MlsdCmd(c) == Exec(c, {"mlsd"}) /\ Handle(c, mlsd(connection[c], fs, Arg(cmd[c]))) /\ UNCHANGED proved

MlstCmd(c) == Exec(c, {"mlst"}) /\ Handle(c, mlst(connection[c], fs, Arg(cmd[c]))) /\ UNCHANGED proved

TypeCmd(c) == Exec(c, {"type"}) /\ Handle(c, type(connection[c], fs, cmd[c].rest)) /\ UNCHANGED proved

PasvCmd(c) ==
    /\ Exec(c, {"pasv"})
    /\ \E port \in Ports : Handle(c, pasv(connection[c], fs, port))
    /\ UNCHANGED proved

\* Server.pasv where the operating system may give the listener any port.
PasvAnyCmd(c) ==
    /\ Exec(c, {"pasv"})
    /\ \E port \in IF "passive_server" \in DOMAIN connection[c] THEN {0} ELSE AllPorts :
          Handle(c, pasv(connection[c], fs, port))
    /\ UNCHANGED proved

ReservedCmd(c) == Exec(c, ReservedVerbs) /\ Handle(c, reserved(connection[c], fs)) /\ UNCHANGED proved

\* getattr(self, "greeting") is the greeting handler.
GreetingCmd(c) == Exec(c, {"greeting"}) /\ Handle(c, greeting(connection[c], fs)) /\ UNCHANGED proved

\* getattr(self, "users") is a list: calling it raises TypeError.
NotCallable(c) ==
    /\ Exec(c, {"users"})
    /\ Handle(c, Raises(connection[c], fs, "TypeError"))
    /\ UNCHANGED proved

\* The dispatcher's own reply to a verb the server has no attribute for.
NotImplemented(c) ==
    /\ pc[c] = "exec" /\ cmd[c].verb \notin Attributes
    /\ Handle(c, Returns(connection[c], fs,
                         Result(TRUE, "502", Str(Text("'{}' not implemented", <<cmd[c].verb>>)))))
    /\ UNCHANGED proved

----------------------------------------------------------------------------
\* The passive data channel.

DataSocket(open) == [open |-> open, lines |-> 0]

\* An accept callback that stores every accepted connection.
ClientConnectLastWins(c) ==
    /\ listener[c] = "open" /\ Quiet
    /\ Len(dsock[c]) < MaxAccept
    /\ dsock' = [dsock EXCEPT ![c] = Append(@, DataSocket(TRUE))]
    /\ connection' = [connection EXCEPT ![c] = Put(@, "passive_connection", Len(dsock[c]) + 1)]
    /\ UNCHANGED <<users, timeout, host, fs, connections, pc, cmd, out, ctl, wopen, exit, listener,
                   tasks, ok, proved>>

\* A client connects to the passive listener: the accept callback `handler` of
\* Server.pasv runs.
ClientConnect(c) ==
    /\ listener[c] = "open" /\ Quiet
    /\ Len(dsock[c]) < MaxAccept
    /\ IF "passive_connection" \in DOMAIN connection[c]
       THEN /\ dsock' = [dsock EXCEPT ![c] = Append(@, DataSocket(FALSE))]
            /\ UNCHANGED connection
       ELSE /\ dsock' = [dsock EXCEPT ![c] = Append(@, DataSocket(TRUE))]
            /\ connection' = [connection EXCEPT
                                ![c] = Put(@, "passive_connection", Len(dsock[c]) + 1)]
    /\ UNCHANGED <<users, timeout, host, fs, connections, pc, cmd, out, ctl, wopen, exit, listener,
                   tasks, ok, proved>>

Close(socks, i) == [socks EXCEPT ![i].open = FALSE]

\* A writer that posts the 200 inside the `with`, before the data writer is closed.
WriterEndInsideWith == <<"200", "close">>

\* The end of mlsd_writer: leaving the `with` closes the data writer, then the 200
\* goes to the control channel.
WriterEnd == <<"close", "200">>

\* mlsd_writer starts: connection.pop("passive_connection"), then path_io.list is
\* awaited.  Tasks start in the order asyncio.async scheduled them.
WriterPop(c, t) ==
    /\ tasks[c][t].pc = "start" /\ Quiet
    /\ \A u \in 1..(t - 1) : tasks[c][u].pc # "start"
    /\ IF "passive_connection" \in DOMAIN connection[c]
       THEN /\ connection' = [connection EXCEPT ![c] = Pop(@, "passive_connection")]
            /\ tasks' = [tasks EXCEPT ![c][t].pc = "list",
                                      ![c][t].sock = connection[c]["passive_connection"],
                                      ![c][t].log = Append(@, "pop")]
       ELSE /\ tasks' = [tasks EXCEPT ![c][t].pc = "KeyError"]
            /\ UNCHANGED connection
    /\ UNCHANGED <<users, timeout, host, fs, connections, pc, cmd, out, ctl, wopen, exit, listener,
                   dsock, ok, proved>>

\* path_io.list returns, or raises and the `with` closes the data writer.
WriterList(c, t) ==
    /\ tasks[c][t].pc = "list" /\ Quiet
    /\ IF list_raises(fs, tasks[c][t].real_path)
       THEN /\ tasks' = [tasks EXCEPT ![c][t].pc = "OSError", ![c][t].log = Append(@, "close")]
            /\ dsock' = [dsock EXCEPT ![c] = Close(@, tasks[c][t].sock)]
       ELSE /\ tasks' = [tasks EXCEPT ![c][t].pc = "write",
                                      ![c][t].todo = list(fs, tasks[c][t].real_path),
                                      ![c][t].log = Append(@, "list")]
            /\ UNCHANGED dsock
    /\ UNCHANGED <<users, timeout, host, fs, connections, connection, pc, cmd, out, ctl, wopen,
                   exit, listener, ok, proved>>

\* One turn of the loop: build_mlsx_string for the next path, and its line written
\* to the data writer; UnknownPathType leaves the `with`.
WriterData(c, t) ==
    /\ tasks[c][t].pc = "write" /\ Quiet
    /\ tasks[c][t].todo # <<>>
    /\ IF MlsxType(fs, Head(tasks[c][t].todo)) = ""
       THEN /\ tasks' = [tasks EXCEPT ![c][t].pc = "UnknownPathType",
                                      ![c][t].log = Append(@, "close")]
            /\ dsock' = [dsock EXCEPT ![c] = Close(@, tasks[c][t].sock)]
       ELSE /\ tasks' = [tasks EXCEPT ![c][t].todo = Tail(@), ![c][t].log = Append(@, "data")]
            /\ dsock' = [dsock EXCEPT ![c][tasks[c][t].sock].lines = @ + 1]
    /\ UNCHANGED <<users, timeout, host, fs, connections, connection, pc, cmd, out, ctl, wopen,
                   exit, listener, ok, proved>>

\* The loop is over: the data writer is closed and the 200 written to the control
\* writer (which takes nothing once closed).
WriterDone(c, t) ==
    /\ tasks[c][t].pc = "write" /\ Quiet
    /\ tasks[c][t].todo = <<>>
    /\ tasks' = [tasks EXCEPT ![c][t].pc = "done", ![c][t].log = @ \o WriterEnd]
    /\ dsock' = [dsock EXCEPT ![c] = Close(@, tasks[c][t].sock)]
    /\ ctl' = IF wopen[c]
              THEN [ctl EXCEPT ![c] = @ \o write_response("200", Str(T("mlsd data transer done")), FALSE)]
              ELSE ctl
    /\ UNCHANGED <<users, timeout, host, fs, connections, connection, pc, cmd, out, wopen, exit,
                   listener, ok, proved>>

Writer(c) ==
    \E t \in 1..Len(tasks[c]) :
        WriterPop(c, t) \/ WriterList(c, t) \/ WriterData(c, t) \/ WriterDone(c, t)

----------------------------------------------------------------------------
\* The server as constructed, and the specifications.

Guest == User(None, None, <<>>,
              <<Permission(<<>>, TRUE, FALSE), Permission(<<"d">>, FALSE, TRUE)>>)
Visitor == User(None, None, <<"d">>, <<>>)
Alice == User("alice", "pa", <<>>, <<>>)
Bob == User("bob", "pb", <<"d">>, <<>>)
UserPool == {Guest, Visitor, Alice, Bob}

\* Server.__init__: `users or [User()]`.
ServerUsers(us) == IF us = <<>> THEN <<User(None, None, <<>>, <<>>)>> ELSE us

InitSessions(clients) ==
    /\ fs = InitFs
    /\ connections = {}
    /\ connection = [c \in Conns |-> <<>>]
    /\ pc = [c \in Conns |-> IF c \in clients THEN "idle" ELSE "absent"]
    /\ cmd = [c \in Conns |-> NoCmd]
    /\ out = [c \in Conns |-> <<>>]
    /\ ctl = [c \in Conns |-> <<>>]
    /\ wopen = [c \in Conns |-> FALSE]
    /\ exit = [c \in Conns |-> ""]
    /\ listener = [c \in Conns |-> "none"]
    /\ dsock = [c \in Conns |-> <<>>]
    /\ tasks = [c \in Conns |-> <<>>]
    /\ ok = [c \in Conns |-> TRUE]
    /\ proved = [c \in Conns |-> FALSE]

Handlers(c) ==
    \/ UserCmd(c) \/ PassCmd(c) \/ QuitCmd(c) \/ PwdCmd(c) \/ CwdCmd(c) \/ CdupCmd(c)
    \/ MkdCmd(c) \/ RmdCmd(c) \/ MlsdCmd(c) \/ MlstCmd(c) \/ TypeCmd(c) \/ PasvCmd(c)
    \/ ReservedCmd(c) \/ GreetingCmd(c) \/ NotCallable(c) \/ NotImplemented(c)

\* One client, a server with an anonymous and a named user and no timeout.
Init ==
    /\ users = ServerUsers(<<Guest, Alice>>)
    /\ timeout = None
    /\ host = ServerHost
    /\ InitSessions({1})

\* Every command, while no client connects to the passive listener.
Next ==
    \E c \in Conns :
        \/ Accept(c) \/ Greeting(c) \/ Read(c) \/ Handlers(c) \/ WriteLine(c)
        \/ ConnectionClosed(c)

Spec == Init /\ [][Next]_vars

\* The passive data channel: the listener, its clients and the MLSD writers.
NextData ==
    \E c \in Conns :
        \/ Accept(c) \/ Greeting(c) \/ ReadData(c)
        \/ UserCmd(c) \/ PassCmd(c) \/ QuitCmd(c) \/ PasvCmd(c) \/ MlsdCmd(c) \/ MlstCmd(c)
        \/ WriteLine(c) \/ ConnectionClosed(c) \/ ClientConnect(c) \/ Writer(c)

SpecData == Init /\ [][NextData]_vars

\* The USER/PASS flow for every configured user list.
InitAuth ==
    /\ users \in {ServerUsers(us) : us \in SeqsUpTo(UserPool, MaxUsers)}
    /\ timeout = None
    /\ host = ServerHost
    /\ InitSessions({1})

NextAuth ==
    \E c \in Conns :
        \/ Accept(c) \/ Greeting(c) \/ ReadAuth(c)
        \/ UserCmd(c) \/ PassCmd(c) \/ QuitCmd(c) \/ PwdCmd(c)
        \/ ConnectionClosed(c)

SpecAuth == InitAuth /\ [][NextAuth]_vars

\* Concurrent control connections to a server with one named user, with and
\* without a read timeout.
InitConc ==
    /\ users = ServerUsers(<<Alice>>)
    /\ timeout \in {None, "30"}
    /\ host = ServerHost
    /\ InitSessions(Conns)

NextConc ==
    \E c \in Conns :
        \/ Accept(c) \/ Greeting(c) \/ ReadConc(c)
        \/ UserCmd(c) \/ PassCmd(c) \/ QuitCmd(c) \/ ReservedCmd(c)
        \/ ConnectionClosed(c) \/ Timeout(c)

SpecConc == InitConc /\ [][NextConc]_vars

\* Changing directory as a named user, for every list of up to MaxPerms permissions
\* the user may be configured with.
PermPool == {Permission(p, r, TRUE) : p \in {<<>>, <<"d">>}, r \in BOOLEAN}

InitPerm ==
    /\ users \in {<<User("alice", "pa", <<>>, perms)>> : perms \in SeqsUpTo(PermPool, MaxPerms)}
    /\ timeout = None
    /\ host = ServerHost
    /\ InitSessions({1})

NextPerm ==
    \E c \in Conns :
        \/ Accept(c) \/ Greeting(c) \/ ReadPerm(c)
        \/ UserCmd(c) \/ PassCmd(c) \/ CwdCmd(c) \/ CdupCmd(c) \/ PwdCmd(c)
        \/ ConnectionClosed(c)

SpecPerm == InitPerm /\ [][NextPerm]_vars

\* PASV on a server started on each of the Hosts, the listener bound to any port.
InitPasv ==
    /\ users = ServerUsers(<<>>)
    /\ timeout = None
    /\ host \in Hosts
    /\ InitSessions({1})

NextPasv ==
    \E c \in Conns :
        \/ Accept(c) \/ Greeting(c) \/ ReadPasv(c) \/ UserCmd(c) \/ PasvAnyCmd(c) \/ WriteLine(c)

SpecPasv == InitPasv /\ [][NextPasv]_vars

----------------------------------------------------------------------------
\* Properties.

Running == {"greeting", "read", "exec", "write"}

\* The single line of a reply `code text`.
Reply(code, text) == <<Line(code, " ", text)>>

\* C1: the dispatcher's continue flag is false after QUIT's 221 and after no other
\* reply: whenever a reply has been written, ok is false exactly when the reply is 221.
C1_OnlyQuitEndsLoop ==
    \A c \in Conns :
        pc[c] \in {"read", "write", "done"} /\ ctl[c] # <<>>
        => (ok[c] = FALSE <=> ctl[c][1].code = "221")

\* C2: a session that holds `logged` holds a user who authenticated: an anonymous
\* user, or a named user whose password was accepted after the USER that selected it.
C2_LoggedIsAuthenticated ==
    \A c \in Conns :
        "logged" \in DOMAIN connection[c]
        => /\ "user" \in DOMAIN connection[c]
           /\ connection[c]["user"].login = None \/ proved[c]

\* C3: a gated handler whose session lacks a required key does not run its body:
\* the reply is 503 with the message of the first missing key in gate order, the
\* session record is unchanged and the dispatcher reads the next command.
C3_Gates(verb) ==
    IF verb = "pass_" THEN << <<"user", "no user (use USER firstly)">> >>
    ELSE IF verb = "mlsd"
    THEN << <<"logged", "not logged in">>,
            <<"passive_server", "no listen socket created (use PASV firstly)">>,
            <<"passive_connection", "no passive connection created (connect firstly)">> >>
    ELSE << <<"logged", "not logged in">> >>

C3_FirstAbsent(gates, conn) ==
    CHOOSE i \in 1..Len(gates) :
        /\ gates[i][1] \notin DOMAIN conn
        /\ \A j \in 1..(i - 1) : gates[j][1] \in DOMAIN conn

C3_GateShortCircuits ==
    [][\A c \in Conns :
         LET gates == C3_Gates(cmd[c].verb)
         IN  /\ pc[c] = "exec"
             /\ cmd[c].verb \in LoginGated \cup {"pass_"}
             /\ \E i \in 1..Len(gates) : gates[i][1] \notin DOMAIN connection[c]
             => /\ connection'[c] = connection[c]
                /\ fs' = fs /\ tasks' = tasks /\ listener' = listener
                /\ ctl'[c] = Reply("503", Text("bad sequence of commands ({})",
                                               <<gates[C3_FirstAbsent(gates, connection[c])][2]>>))
                /\ out'[c] = <<>>
                /\ pc'[c] = "read"]_vars

\* C3 witness: MLSD was refused for want of a data connection, after PASV.
C3_Witness ==
    \E c \in Conns :
        /\ pc[c] = "read"
        /\ "passive_server" \in DOMAIN connection[c]
        /\ ctl[c] = Reply("503", Text("bad sequence of commands ({})",
                                      <<"no passive connection created (connect firstly)">>))

\* C4: USER <name> selects the first user whose login is the name, wherever it
\* stands; failing that the first anonymous user; failing that nobody.  Nobody: 530
\* and the session is unchanged.  Anonymous: user, logged and
\* current_directory = home_path are set, 230.  Named: only user is set, 331.
C4_First(S) == CHOOSE i \in S : \A j \in S : i <= j

C4_UserSelection ==
    [][\A c \in Conns :
         LET name == cmd[c].rest
             named == {i \in 1..Len(users) : users[i].login = name}
             anonymous == {i \in 1..Len(users) : users[i].login = None}
             conn == connection[c]
         IN  pc[c] = "exec" /\ cmd[c].verb = "user"
             => IF named # {}
                THEN /\ connection'[c] = Put(conn, "user", users[C4_First(named)])
                     /\ ctl'[c] = Reply("331", T("require password"))
                ELSE IF anonymous # {}
                THEN /\ connection'[c] =
                          Put(Put(Put(conn, "user", users[C4_First(anonymous)]), "logged", TRUE),
                              "current_directory", users[C4_First(anonymous)].home_path)
                     /\ ctl'[c] = Reply("230", T("anonymous login"))
                ELSE /\ connection'[c] = conn
                     /\ ctl'[c] = Reply("530", T("no such username"))]_vars

\* C4 witness: a named user listed after an anonymous user was selected, and the
\* session is not logged in.
C4_Witness ==
    \E c \in Conns :
        /\ Len(users) > 1 /\ users[1].login = None
        /\ pc[c] = "read"
        /\ ctl[c] = Reply("331", T("require password"))
        /\ connection[c]["user"].login = "alice"
        /\ "logged" \notin DOMAIN connection[c]

\* C5: a dispatcher that has returned has closed the control writer, the passive
\* listener if the session has one, and the accepted data socket if it has one.
C5_ExitReleasesDescriptors ==
    \A c \in Conns :
        pc[c] = "done"
        => /\ ~wopen[c]
           /\ "passive_server" \in DOMAIN connection[c] => listener[c] = "closed"
           /\ "passive_connection" \in DOMAIN connection[c]
              => ~dsock[c][connection[c]["passive_connection"]].open

\* C6: a session is in the registry, under its own control connection, exactly
\* while its dispatcher runs (from before the greeting to any exit), and a
\* dispatcher's exit leaves every other session's entry and record as they were.
C6_Registered ==
    \A c \in Conns :
        /\ c \in connections <=> pc[c] \in Running
        /\ c \in connections => connection[c]["command_connection"] = c

C6_Registry ==
    /\ []C6_Registered
    /\ [][\A c, d \in Conns :
            c # d /\ pc[c] \in Running /\ pc'[c] = "done"
            => /\ d \in connections' <=> d \in connections
               /\ connection'[d] = connection[d]]_vars

\* C6 witness: one dispatcher left through a handler's exception while another
\* session is still being served.
C6_Witness ==
    \E c, d \in Conns :
        /\ pc[c] = "done" /\ exit[c] = "TypeError" /\ c \notin connections
        /\ pc[d] = "read" /\ d \in connections /\ "logged" \in DOMAIN connection[d]

\* C7: MKD and MLST of a logged-in session always end in a reply (257, 250, 550 or
\* 502), also when mkdir raises OSError or the path is neither file nor directory,
\* and the dispatcher goes on to the next command.
C7_ErrorsSurfaceAsReplies ==
    [][\A c \in Conns :
         pc[c] = "exec" /\ cmd[c].verb \in {"mkd", "mlst"} /\ "logged" \in DOMAIN connection[c]
         => /\ pc'[c] \in {"read", "write"}
            /\ ctl'[c] # <<>>
            /\ ctl'[c][1].code \in {"257", "250", "550", "502"}]_vars

\* C8: RMD of a logged-in session is answered: 257 when the path exists, is a
\* directory, is writable and rmdir succeeds; 550 with the matching text otherwise;
\* then the dispatcher reads the next command.
C8_Expected(f, conn, arg) ==
    LET real_path == get_paths(conn, arg)[1]
        virtual_path == get_paths(conn, arg)[2]
    IN  IF ~exists(f, real_path) THEN <<"550", "path does not exists">>
        ELSE IF ~is_dir(f, real_path) THEN <<"550", "path is not a directory">>
        ELSE IF ~get_permissions(conn["user"], virtual_path).writable
        THEN <<"550", "permission denied">>
        ELSE IF rmdir_raises(f, real_path) THEN <<"550", "os error: {}">>
        ELSE <<"257", "">>

C8_RmdReplies ==
    [][\A c \in Conns :
         pc[c] = "exec" /\ cmd[c].verb = "rmd" /\ "logged" \in DOMAIN connection[c]
         => /\ pc'[c] = "read"
            /\ Len(ctl'[c]) = 1
            /\ <<ctl'[c][1].code, ctl'[c][1].text.msg>>
                 = C8_Expected(fs, connection[c], Arg(cmd[c]))]_vars

\* C9: a reserved verb of a logged-in session is answered 502 not implemented, the
\* session record is unchanged and the dispatcher reads the next command.
C9_ReservedVerbsReply502 ==
    [][\A c \in Conns :
         pc[c] = "exec" /\ cmd[c].verb \in ReservedVerbs /\ "logged" \in DOMAIN connection[c]
         => /\ ctl'[c] = Reply("502", Text("'{}' not implemented", <<cmd[c].verb>>))
            /\ connection'[c] = connection[c]
            /\ pc'[c] = "read"]_vars

\* C10: the events of a transfer come in the order 150, removal of
\* passive_connection, list, data lines, close of the data writer, 200: nothing of a
\* transfer precedes its 150, the 200 follows the close, and a transfer that has
\* finished wrote one line per listed path to its data socket.
C10_Rank(ev) ==
    CASE ev = "150" -> 1 [] ev = "pop" -> 2 [] ev = "list" -> 3
      [] ev = "data" -> 4 [] ev = "close" -> 5 [] ev = "200" -> 6

C10_Count(log, ev) == Cardinality({i \in 1..Len(log) : log[i] = ev})

C10_MlsdOrder ==
    \A c \in Conns : \A t \in 1..Len(tasks[c]) :
        LET task == tasks[c][t]
            log == task.log
        IN  /\ log # <<>> => log[1] = "150"
            /\ \A i, j \in 1..Len(log) :
                 i < j => \/ C10_Rank(log[i]) < C10_Rank(log[j])
                          \/ log[i] = "data" /\ log[j] = "data"
            /\ C10_Count(log, "200") > 0 => C10_Count(log, "close") > 0
            /\ task.pc = "done"
               => /\ log[Len(log)] = "200"
                  /\ C10_Count(log, "data") = Len(list(fs, task.real_path))
                  /\ dsock[c][task.sock].lines = Len(list(fs, task.real_path))
                  /\ ~dsock[c][task.sock].open

\* C10 witness: a transfer of a directory with two entries ran to its end.
C10_Witness ==
    \E c \in Conns : \E t \in 1..Len(tasks[c]) :
        /\ tasks[c][t].pc = "done"
        /\ tasks[c][t].log = <<"150", "pop", "list", "data", "data", "close", "200">>

\* C11: an accepted data connection is stored as passive_connection when the key is
\* absent, and closed with the stored one left alone when the key is present; the
\* stored connection is open and held by no transfer, every other open data socket
\* is held by a running transfer, and the stored value changes only after a removal.
C11_Held(c, i) == \E t \in 1..Len(tasks[c]) : tasks[c][t].sock = i /\ tasks[c][t].pc \in {"list", "write"}

C11_OneStored ==
    \A c \in Conns : \A i \in 1..Len(dsock[c]) :
        LET stored == "passive_connection" \in DOMAIN connection[c] /\ connection[c]["passive_connection"] = i
        IN  /\ dsock[c][i].open <=> stored \/ C11_Held(c, i)
            /\ ~(stored /\ C11_Held(c, i))

C11_AcceptStep ==
    \A c \in Conns :
        /\ Len(dsock'[c]) > Len(dsock[c])
           => /\ Len(dsock'[c]) = Len(dsock[c]) + 1
              /\ SubSeq(dsock'[c], 1, Len(dsock[c])) = dsock[c]
              /\ IF "passive_connection" \in DOMAIN connection[c]
                 THEN connection'[c] = connection[c] /\ ~dsock'[c][Len(dsock'[c])].open
                 ELSE /\ connection'[c] = Put(connection[c], "passive_connection", Len(dsock'[c]))
                      /\ dsock'[c][Len(dsock'[c])].open
        /\ "passive_connection" \in DOMAIN connection[c] /\ "passive_connection" \in DOMAIN connection'[c]
           => connection'[c]["passive_connection"] = connection[c]["passive_connection"]

C11_FirstAcceptWins == []C11_OneStored /\ [][C11_AcceptStep]_vars

\* C11 witness: a second client connected while the first accepted connection was
\* still stored, and was closed.
C11_Witness ==
    \E c \in Conns :
        /\ Len(dsock[c]) = 2 /\ dsock[c][1].open /\ ~dsock[c][2].open
        /\ "passive_connection" \in DOMAIN connection[c] /\ connection[c]["passive_connection"] = 1

\* C12: the first PASV of a logged-in session binds the listener, stores it as
\* passive_server and replies 227 'listen socket created'; every later PASV binds
\* nothing, leaves the session alone and replies 227 'listen socket already exists'
\* with the tuple of the stored listener; passive_server is never removed or replaced.
C12_PasvReply(c, head, sockname) ==
    /\ ctl'[c] = <<Line("227", "-", T(head))>>
    /\ out'[c] = <<Line("227", " ", PasvText(sockname))>>
    /\ pc'[c] = "write"

C12_PasvStep ==
    \A c \in Conns :
        /\ pc[c] = "exec" /\ cmd[c].verb = "pasv" /\ "logged" \in DOMAIN connection[c]
           => IF "passive_server" \notin DOMAIN connection[c]
              THEN /\ listener[c] = "none" /\ listener'[c] = "open"
                   /\ "passive_server" \in DOMAIN connection'[c]
                   /\ Pop(connection'[c], "passive_server") = connection[c]
                   /\ C12_PasvReply(c, "listen socket created", connection'[c]["passive_server"])
              ELSE /\ listener'[c] = listener[c]
                   /\ connection'[c] = connection[c]
                   /\ C12_PasvReply(c, "listen socket already exists", connection[c]["passive_server"])
        /\ "passive_server" \in DOMAIN connection[c]
           => /\ "passive_server" \in DOMAIN connection'[c]
              /\ connection'[c]["passive_server"] = connection[c]["passive_server"]
        /\ listener[c] # "none" => listener'[c] = listener[c]

C12_ListenerStored ==
    \A c \in Conns : listener[c] = "open" <=> "passive_server" \in DOMAIN connection[c]

C12_OneListener == []C12_ListenerStored /\ [][C12_PasvStep]_vars

\* C12 witness: a PASV answered 'listen socket already exists' after a transfer
\* consumed an accepted data connection.
C12_Witness ==
    \E c \in Conns :
        /\ pc[c] = "write" /\ ctl[c] = <<Line("227", "-", T("listen socket already exists"))>>
        /\ \E t \in 1..Len(tasks[c]) : tasks[c][t].pc = "done"

\* C13: the dispatcher reads a command only when no handler is running and no line
\* of the previous reply is left to write, and what it wrote since the previous read
\* is one complete reply; while a handler runs or a reply is being written no
\* command is read.
C13_Done == Line("200", " ", T("mlsd data transer done"))

C13_ByDispatcher(line) == line # C13_Done

C13_Complete(lines) ==
    /\ lines # <<>>
    /\ lines[Len(lines)].sep = " " /\ lines[Len(lines)].code # ""
    /\ \A i \in 1..Len(lines) : i < Len(lines) => lines[i].sep = "-" \/ lines[i].code = ""

C13_Serial ==
    \A c \in Conns :
        /\ pc[c] \in {"read", "exec"} => out[c] = <<>>
        /\ pc[c] = "read" => C13_Complete(SelectSeq(ctl[c], C13_ByDispatcher))
        /\ pc[c] = "exec" => SelectSeq(ctl[c], C13_ByDispatcher) = <<>>
        /\ pc[c] = "write" => out[c] # <<>> /\ cmd[c] = NoCmd

C13_ReadStep ==
    \A c \in Conns :
        cmd'[c] # cmd[c] /\ cmd'[c] # NoCmd
        => /\ pc[c] = "read" /\ cmd[c] = NoCmd /\ out[c] = <<>>
           /\ C13_Complete(SelectSeq(ctl[c], C13_ByDispatcher))

C13_StrictlySerial == []C13_Serial /\ [][C13_ReadStep]_vars

\* C13 witness: the dispatcher is back at reading after MLST's three-line reply.
C13_Witness ==
    \E c \in Conns :
        /\ pc[c] = "read" /\ out[c] = <<>>
        /\ Len(SelectSeq(ctl[c], C13_ByDispatcher)) = 3

\* C14 (as stated): in every reply written for a handler's result the final line starts
\* with the code and a space and every earlier line with the code and '-'.
C14_Written(c) == ctl'[c] \o out'[c]

C14_Replied(c) == pc[c] \in {"greeting", "exec"} /\ ctl'[c] # <<>>

C14_AllLinesCarryCode ==
    [][\A c \in Conns :
         C14_Replied(c)
         => LET lines == C14_Written(c)
                n == Len(lines)
            IN  /\ lines[n].code # "" /\ lines[n].sep = " "
                /\ \A i \in 1..n : i < n => lines[i].code = lines[n].code /\ lines[i].sep = "-"]_vars

\* C14 (amended): the final line starts with the code and a space and the first line
\* of a longer reply with the code and '-'; the lines between them start with the
\* code and '-' in non-list mode, and with a single space and no code in list mode
\* (MLST's 250 reply).
C14_ListMode(c, code) == pc[c] = "exec" /\ cmd[c].verb = "mlst" /\ code = "250"

C14_ReplyFraming ==
    [][\A c \in Conns :
         C14_Replied(c)
         => LET lines == C14_Written(c)
                n == Len(lines)
            IN  /\ lines[n].code # "" /\ lines[n].sep = " "
                /\ \A i \in 1..n :
                     i < n => IF i > 1 /\ C14_ListMode(c, lines[n].code)
                              THEN lines[i].code = "" /\ lines[i].sep = " "
                              ELSE lines[i].code = lines[n].code /\ lines[i].sep = "-"]_vars

\* C14 witness: MLST's three-line reply and PASV's two-line reply have been written.
C14_Witness ==
    \E c \in Conns :
        /\ pc[c] = "read" /\ out[c] = <<>>
        /\ Len(ctl[c]) = 3 /\ ctl[c][1] = Line("250", "-", T("start"))
        /\ ctl[c][2].code = "" /\ ctl[c][3] = Line("250", " ", T("end"))
        /\ "passive_server" \in DOMAIN connection[c]

\* The permission the deepest of whose matching prefixes of `path` comes first in
\* the list, as an index into the list; 0 when no permission's path is a prefix.
C16_Deepest(perms, path) ==
    LET matches == {i \in 1..Len(perms) : IsPrefix(perms[i].path, path)}
    IN  IF matches = {} THEN 0
        ELSE CHOOSE i \in matches :
               \A j \in matches :
                   /\ Len(perms[j].path) <= Len(perms[i].path)
                   /\ Len(perms[j].path) = Len(perms[i].path) => i <= j

\* C15: a CWD or CDUP of a logged-in session replies 250 or 550; after 250
\* current_directory is the path the argument names from the root (the argument
\* itself when absolute, appended to the old current_directory when relative, the
\* lexical parent for CDUP) and the user's most specific permission over it is
\* readable; after 550 the session record is unchanged.
C15_Target(c) ==
    IF cmd[c].verb = "cdup" THEN Parent(connection[c]["current_directory"])
    ELSE IF cmd[c].abs THEN cmd[c].parts
    ELSE connection[c]["current_directory"] \o cmd[c].parts

C15_DirectoryStep ==
    [][\A c \in Conns :
         pc[c] = "exec" /\ cmd[c].verb \in {"cwd", "cdup"} /\ "logged" \in DOMAIN connection[c]
         => LET perms == connection[c]["user"].permissions
                deepest == C16_Deepest(perms, C15_Target(c))
            IN  /\ pc'[c] = "read" /\ Len(ctl'[c]) = 1
                /\ ctl'[c][1].code \in {"250", "550"}
                /\ ctl'[c][1].code = "250"
                   => /\ connection'[c] = Put(connection[c], "current_directory", C15_Target(c))
                      /\ deepest # 0 => perms[deepest].readable
                /\ ctl'[c][1].code = "550" => connection'[c] = connection[c]]_vars

\* C15 witness: a CWD with a ".." component was answered 250 and one to a
\* directory the user may not read was answered 550.
C15_Witness ==
    \E c \in Conns :
        /\ pc[c] = "read" /\ ctl[c] = Reply("550", T("permission denied"))
        /\ "current_directory" \in DOMAIN connection[c]
        /\ connection[c]["current_directory"] = <<"d", DotDot>>

\* C16: get_permissions returns the first of the permissions whose path is the
\* deepest prefix of the path asked for, the default readable and writable
\* Permission("/") when none is a prefix, and for p/child a permission with a path
\* at least as long as for p.
C16_MostSpecific ==
    \A i \in 1..Len(users) : \A path \in LexPaths :
        LET perms == users[i].permissions
            deepest == C16_Deepest(perms, path)
        IN  /\ get_permissions(users[i], path)
                = IF deepest = 0 THEN Permission(<<>>, TRUE, TRUE) ELSE perms[deepest]
            /\ \A child \in Names \cup {DotDot} :
                 Len(get_permissions(users[i], Append(path, child)).path)
                    >= Len(get_permissions(users[i], path).path)

\* C16 witness: of two permissions for /d the first, unreadable one decided a CWD,
\* and the default decided a CWD to the root, which no permission covers.
C16_Witness ==
    \E c \in Conns :
        /\ users[1].permissions = <<Permission(<<"d">>, FALSE, TRUE), Permission(<<"d">>, TRUE, TRUE)>>
        /\ pc[c] = "read" /\ ctl[c] = Reply("550", T("permission denied"))
        /\ "current_directory" \in DOMAIN connection[c]
        /\ connection[c]["current_directory"] = <<DotDot>>

\* C17: the tuple PASV advertises has six numbers: the four octets of the address
\* the listener is bound to, then p1 = port >> 8 and p2 = port & 0xff, both in
\* 0..255, with p1 * 256 + p2 the port the listener is bound to.
RECURSIVE C17_Str(_)
C17_Str(n) == IF n < 10 THEN <<Digits[n + 1]>> ELSE C17_Str(n \div 10) \o <<Digits[(n % 10) + 1]>>

C17_Dotted(nums) ==
    C17_Str(nums[1]) \o <<".">> \o C17_Str(nums[2]) \o <<".">> \o C17_Str(nums[3])
    \o <<".">> \o C17_Str(nums[4])

C17_Advertised(c) ==
    {line.text.nums : line \in {(ctl[c] \o out[c])[i] : i \in 1..Len(ctl[c] \o out[c])}} \ {<<>>}

C17_PasvTuple ==
    \A c \in Conns : \A nums \in C17_Advertised(c) :
        /\ Len(nums) = 6
        /\ \A i \in 1..6 : nums[i] \in 0..255
        /\ "passive_server" \in DOMAIN connection[c]
        /\ nums[5] * 256 + nums[6] = connection[c]["passive_server"].port
        /\ C17_Dotted(nums) = connection[c]["passive_server"].host

\* C17 witness: a listener bound to port 49153 of 192.168.10.255 was advertised.
C17_Witness ==
    \E c \in Conns :
        /\ pc[c] = "read" /\ Len(ctl[c]) = 2
        /\ ctl[c][2].text.nums = <<192, 168, 10, 255, 192, 1>>
        /\ connection[c]["passive_server"].port = 49153

\* C18: while passive_connection is present at most one mlsd_writer is waiting to
\* remove it, while it is absent none is, no writer finds the key missing, and no
\* two transfers use the same data socket.
C18_SingleUse ==
    \A c \in Conns :
        /\ Cardinality({t \in 1..Len(tasks[c]) : tasks[c][t].pc = "start"})
              <= IF "passive_connection" \in DOMAIN connection[c] THEN 1 ELSE 0
        /\ \A t \in 1..Len(tasks[c]) : tasks[c][t].pc # "KeyError"
        /\ \A t, u \in 1..Len(tasks[c]) :
             t # u /\ tasks[c][t].sock # 0 => tasks[c][t].sock # tasks[c][u].sock

\* C19: logged comes with user and current_directory, passive_server and
\* passive_connection come with logged, no handler fails reading a session key, and
\* user, logged, current_directory and passive_server stay once set.
C19_Keys ==
    \A c \in Conns :
        LET keys == DOMAIN connection[c]
        IN  /\ "logged" \in keys => "user" \in keys /\ "current_directory" \in keys
            /\ "passive_server" \in keys \/ "passive_connection" \in keys => "logged" \in keys
            /\ exit[c] # "KeyError"

C19_Kept ==
    \A c \in Conns : \A key \in {"user", "logged", "current_directory", "passive_server"} :
        key \in DOMAIN connection[c] => key \in DOMAIN connection'[c]

C19_SessionKeys == []C19_Keys /\ [][C19_Kept]_vars

\* C19 witness: a named user logged in with PASS, a data connection was accepted and
\* MLST read user and current_directory.
C19_Witness ==
    \E c \in Conns :
        /\ pc[c] = "read" /\ Len(ctl[c]) = 3 /\ ctl[c][1] = Line("250", "-", T("start"))
        /\ "passive_connection" \in DOMAIN connection[c]
        /\ connection[c]["user"].login = "alice"

\* C20: on the control channel the background writer's '200 mlsd data transer done'
\* never stands between two lines of the reply the dispatcher is writing.
C20_Contiguous ==
    \A c \in Conns : \A i, j, k \in 1..Len(ctl[c]) :
        i < j /\ j < k /\ ctl[c][i] # C13_Done /\ ctl[c][j] = C13_Done => ctl[c][k] = C13_Done

====
